---- MODULE Spec2Model ----
(***************************************************************************)
(* The in-process task scheduler of src/scheduler (scheduler.go, task.go): *)
(* callers of Add/Del/Stop, the dispatch loop of Run, the timer callbacks  *)
(* and the per-fire workers of taskRunner, as one state machine.           *)
(*                                                                         *)
(* Spec: time is abstract, an armed timer may fire at any moment.  An     *)
(* unrecovered Go panic ends the whole process; the model records its      *)
(* cause in `crashed` and takes no further step.                           *)
(*                                                                         *)
(* SpecNext: one call of Task.next on a task of any of the six variants,   *)
(* with the clock, the calendar and the zone offset computed in ticks.     *)
(*                                                                         *)
(* SpecBuild: a chain of builder calls on one task descriptor, with legal  *)
(* and illegal arguments.                                                  *)
(***************************************************************************)
EXTENDS Integers, Sequences, FiniteSets, TLC

\* ------------------------------------------------------------------ bounds
MaxTasks == 2       \* calls of Add over a run
MaxWorkers == 3     \* workers spawned over a run
MaxDels == 2        \* calls of Del over a run
MaxTimes == 2       \* largest n given to Times(n)
MaxEvents == 4      \* calls of Add, Del and Stop, cancellations and timer expiries over a run
TicksPerSec == 2    \* clock ticks in a second (the clock's resolution)
NowDays == 7        \* consecutive dates the current time is drawn from
MaxSpan == 3        \* longest duration, in ticks, given to Every and RandomInterval
MaxCalls == 2       \* builder calls on one task

\* ------------------------------------------------------ program constants
ChanCap == 256      \* capacity of the run, add and del channels
Forever == -1       \* times of a task that runs indefinitely

Ids == 1..MaxTasks
Modes == {"nonBlocking", "blocking", "globalBlocking"}
Outcomes == {"ok", "error", "panic"}
TimesChoices == {Forever} \cup (1..MaxTimes)
StopSteps == <<"flag", "tasks", "mus", "closeRun", "closeAdd", "closeDel">>

VARIABLES
    nextID,      \* Scheduler.nextID
    tasks,       \* keys of Scheduler.tasks
    taskMus,     \* keys of Scheduler.taskMus
    times,       \* Task.times of the task with each id
    mode,        \* Task.blocking of the task with each id
    armed,       \* whether Task.timer of each id is created, not fired, not stopped
    stray,       \* armed timers of each id that Task.timer no longer refers to
    cb,          \* position of the timer callback of each id
    muHolder,    \* the worker holding the per-task mutex of each id, 0 if free
    rwWriter,    \* the worker that called globalTaskMu.Lock and has not unlocked, 0 if none
    rwReaders,   \* the workers holding globalTaskMu.RLock
    run,         \* Scheduler.run: buffered ids
    add,         \* Scheduler.add: buffered tasks (by id)
    del,         \* Scheduler.del: buffered ids
    closed,      \* the channels that were closed
    stopped,     \* Scheduler.stopped
    cancelled,   \* ctx.Done() is closed
    loop,        \* the goroutine of Run: its position and the id it is handling
    ext,         \* a goroutine calling Stop directly: its position
    adding,      \* the call of Add that gave out each id: its position
    workers,     \* the goroutines of taskRunner, in spawn order
    crashed,     \* cause of the unrecovered panic that ended the process, or "none"
    hist,        \* history: what the dispatch loop and the callers did, for the claims
    nx           \* one call of Task.next on its own: the task, the clock, the result

vars == <<nextID, tasks, taskMus, times, mode, armed, cb, muHolder, rwWriter, rwReaders,
          run, add, del, closed, stopped, cancelled, loop, ext, adding, workers,
          crashed, hist, stray, nx>>

\* New(), NewTask(): empty tables and channels, nothing stopped.
SchedulerInit ==
    /\ nextID = 0
    /\ tasks = {}
    /\ taskMus = {}
    /\ times = [i \in Ids |-> Forever]
    /\ mode = [i \in Ids |-> "nonBlocking"]
    /\ armed = [i \in Ids |-> FALSE]
    /\ stray = [i \in Ids |-> 0]
    /\ cb = [i \in Ids |-> "idle"]
    /\ muHolder = [i \in Ids |-> 0]
    /\ rwWriter = 0
    /\ rwReaders = {}
    /\ run = <<>>
    /\ add = <<>>
    /\ del = <<>>
    /\ closed = {}
    /\ stopped = FALSE
    /\ cancelled = FALSE
    /\ loop = [pc |-> "select", id |-> 0, ret |-> "select", step |-> 0]
    /\ ext = [pc |-> "idle", step |-> 0]
    /\ adding = [i \in Ids |-> "none"]
    /\ workers = <<>>
    /\ crashed = "none"
    /\ hist = [handled |-> <<>>, n0 |-> [i \in Ids |-> 0], fired |-> {}, nfires |-> 0,
               delEarly |-> {}, dels |-> 0, lastOut |-> "none"]

Init ==
    /\ SchedulerInit
    /\ nx = [pc |-> "unused"]

\* An unrecovered panic ends the process: nothing runs afterwards.
Alive == crashed = "none"

\* What the environment did so far: calls of Add, Del and Stop, the cancellation
\* of ctx, and timer expiries.
Events ==
    nextID + hist.nfires + hist.dels + (IF ext.pc = "idle" THEN 0 ELSE 1)
        + (IF cancelled THEN 1 ELSE 0)

\* ------------------------------------------------------------ Task.next
\* A faulty next without the early return on times == 0.
nextKeepAtZero(t) == TRUE

\* Whether next reports a next occurrence, from the remaining-runs counter.
\* The delay it computes is abstracted by the timer firing at any moment; the
\* tasks here have a variant that finds a next instant (once, every, random,
\* daily, or weekly/monthly with a day/month selected).
nextKeep(t) == t # 0

\* A faulty next that forgets t.times--.
nextTimesKept(t) == t

\* The remaining-runs counter after a call of next.
nextTimes(t) == IF t > 0 THEN t - 1 ELSE t

\* --------------------------------------------------------- Add and Del
\* Add, first half: task.id = s.nextID.Add(1), for a task built with mode m and
\* times n.  Every call of Add may be on a goroutine of its own.
AddAssign(m, n) ==
    /\ Alive
    /\ UNCHANGED <<stray, nx>>
    /\ nextID < MaxTasks
    /\ Events < MaxEvents
    /\ nextID' = nextID + 1
    /\ times' = [times EXCEPT ![nextID + 1] = n]
    /\ mode' = [mode EXCEPT ![nextID + 1] = m]
    /\ adding' = [adding EXCEPT ![nextID + 1] = "assigned"]
    /\ hist' = [hist EXCEPT !.n0[nextID + 1] = n]
    /\ UNCHANGED <<tasks, taskMus, armed, cb, muHolder, rwWriter, rwReaders, run, add, del,
                   closed, stopped, cancelled, loop, ext, workers, crashed>>

\* Add, second half: s.add <- task; return task.id.  A send on a closed channel panics.
AddSend(id) ==
    /\ Alive
    /\ UNCHANGED <<stray, nx>>
    /\ adding[id] = "assigned"
    /\ IF "add" \in closed
         THEN /\ crashed' = "send on closed add"
              /\ UNCHANGED <<add, adding>>
         ELSE /\ Len(add) < ChanCap
              /\ add' = Append(add, id)
              /\ adding' = [adding EXCEPT ![id] = "returned"]
              /\ UNCHANGED crashed
    /\ UNCHANGED <<nextID, tasks, taskMus, times, mode, armed, cb, muHolder, rwWriter,
                   rwReaders, run, del, closed, stopped, cancelled, loop, ext, workers, hist>>

\* Del(id), by the caller that got id back from Add: s.del <- id.
Del(id) ==
    /\ Alive
    /\ UNCHANGED <<stray, nx>>
    /\ adding[id] = "returned"
    /\ hist.dels < MaxDels
    /\ Events < MaxEvents
    /\ IF "del" \in closed
         THEN /\ crashed' = "send on closed del"
              /\ UNCHANGED <<del, hist>>
         ELSE /\ Len(del) < ChanCap
              /\ del' = Append(del, id)
              /\ hist' = [hist EXCEPT !.dels = @ + 1]
              /\ UNCHANGED crashed
    /\ UNCHANGED <<nextID, tasks, taskMus, times, mode, armed, cb, muHolder, rwWriter,
                   rwReaders, run, add, closed, stopped, cancelled, loop, ext, adding,
                   workers>>

\* ------------------------------------------------------------------ Stop
\* One step of Stop: k-th of StopSteps.  Closing a closed channel panics.
StopStep(k) ==
    \/ /\ StopSteps[k] = "flag"
       /\ stopped' = TRUE
       /\ UNCHANGED <<tasks, armed, taskMus, closed, crashed>>
    \/ /\ StopSteps[k] = "tasks"
       /\ armed' = [i \in Ids |-> IF i \in tasks THEN FALSE ELSE armed[i]]
       /\ tasks' = {}
       /\ UNCHANGED <<stopped, taskMus, closed, crashed>>
    \/ /\ StopSteps[k] = "mus"
       /\ taskMus' = {}
       /\ UNCHANGED <<stopped, tasks, armed, closed, crashed>>
    \/ /\ k > 3
       /\ LET ch == IF StopSteps[k] = "closeRun" THEN "run"
                    ELSE IF StopSteps[k] = "closeAdd" THEN "add" ELSE "del"
          IN  IF ch \in closed
                THEN crashed' = "close of closed channel" /\ UNCHANGED closed
                ELSE closed' = closed \cup {ch} /\ UNCHANGED crashed
       /\ UNCHANGED <<stopped, tasks, armed, taskMus>>

\* Stop called directly by another goroutine.
ExtStopCall ==
    /\ Alive
    /\ UNCHANGED <<stray, nx>>
    /\ ext.pc = "idle"
    /\ Events < MaxEvents
    /\ ext' = [pc |-> "stop", step |-> 1]
    /\ UNCHANGED <<nextID, tasks, taskMus, times, mode, armed, cb, muHolder, rwWriter,
                   rwReaders, run, add, del, closed, stopped, cancelled, loop, adding,
                   workers, crashed, hist>>

ExtStop ==
    /\ Alive
    /\ UNCHANGED <<stray, nx>>
    /\ ext.pc = "stop"
    /\ StopStep(ext.step)
    /\ ext' = IF ext.step = Len(StopSteps) THEN [pc |-> "done", step |-> 0]
              ELSE [ext EXCEPT !.step = @ + 1]
    /\ UNCHANGED <<nextID, times, mode, cb, muHolder, rwWriter, rwReaders, run, add, del,
                   cancelled, loop, adding, workers, hist>>

\* The caller of Run cancels ctx.
Cancel ==
    /\ Alive
    /\ UNCHANGED <<stray, nx>>
    /\ ~cancelled
    /\ Events < MaxEvents
    /\ cancelled' = TRUE
    /\ UNCHANGED <<nextID, tasks, taskMus, times, mode, armed, cb, muHolder, rwWriter,
                   rwReaders, run, add, del, closed, stopped, loop, ext, adding, workers,
                   crashed, hist>>

\* ------------------------------------------------------------------- Run
AtSelect == loop.pc = "select"

\* case <-ctx.Done(): s.Stop(); return
LoopCtxDone ==
    /\ Alive
    /\ UNCHANGED <<stray, nx>>
    /\ AtSelect
    /\ cancelled
    /\ loop' = [loop EXCEPT !.pc = "stop", !.step = 1]
    /\ UNCHANGED <<nextID, tasks, taskMus, times, mode, armed, cb, muHolder, rwWriter,
                   rwReaders, run, add, del, closed, stopped, cancelled, ext, adding,
                   workers, crashed, hist>>

LoopStop ==
    /\ Alive
    /\ UNCHANGED <<stray, nx>>
    /\ loop.pc = "stop"
    /\ StopStep(loop.step)
    /\ loop' = IF loop.step = Len(StopSteps) THEN [loop EXCEPT !.pc = "returned", !.step = 0]
               ELSE [loop EXCEPT !.step = @ + 1]
    /\ UNCHANGED <<nextID, times, mode, cb, muHolder, rwWriter, rwReaders, run, add, del,
                   cancelled, ext, adding, workers, hist>>

\* A receive from a closed and drained channel gives ok = false: return.
LoopClosed ==
    /\ Alive
    /\ UNCHANGED <<stray, nx>>
    /\ AtSelect
    /\ \/ "run" \in closed /\ run = <<>>
       \/ "add" \in closed /\ add = <<>>
       \/ "del" \in closed /\ del = <<>>
    /\ loop' = [loop EXCEPT !.pc = "returned", !.id = 0]
    /\ UNCHANGED <<nextID, tasks, taskMus, times, mode, armed, cb, muHolder, rwWriter,
                   rwReaders, run, add, del, closed, stopped, cancelled, ext, adding,
                   workers, crashed, hist>>

\* A faulty fire branch that spawns the worker before it calls next.
LoopRecvRunSpawnsFirst ==
    /\ Alive
    /\ UNCHANGED <<stray, nx>>
    /\ AtSelect
    /\ run # <<>>
    /\ run' = Tail(run)
    /\ loop' = IF Head(run) \in tasks
               THEN [loop EXCEPT !.pc = "fire_spawn", !.id = Head(run)]
               ELSE loop
    /\ UNCHANGED <<nextID, tasks, taskMus, times, mode, armed, cb, muHolder, rwWriter,
                   rwReaders, add, del, closed, stopped, cancelled, ext, adding, workers,
                   crashed, hist>>

\* case id, ok := <-s.run, and the lookup of s.tasks[id].
LoopRecvRun ==
    /\ Alive
    /\ UNCHANGED <<stray, nx>>
    /\ AtSelect
    /\ run # <<>>
    /\ run' = Tail(run)
    /\ loop' = IF Head(run) \in tasks
               THEN [loop EXCEPT !.pc = "fire_next", !.id = Head(run)]
               ELSE loop
    /\ UNCHANGED <<nextID, tasks, taskMus, times, mode, armed, cb, muHolder, rwWriter,
                   rwReaders, add, del, closed, stopped, cancelled, ext, adding, workers,
                   crashed, hist>>

\* next, ok := task.next(); then arm the next timer, or go on to delTask.
\* `after` is where delTask returns to.
CallNext(store, after) ==
    /\ times' = [times EXCEPT ![loop.id] = nextTimes(@)]
    /\ IF nextKeep(times[loop.id])
         THEN /\ armed' = [armed EXCEPT ![loop.id] = TRUE]
              /\ stray' = [stray EXCEPT ![loop.id] = IF armed[loop.id] THEN @ + 1 ELSE @]
              /\ loop' = [loop EXCEPT !.pc = store]
         ELSE /\ loop' = [loop EXCEPT !.pc = "del_tasks", !.ret = after]
              /\ UNCHANGED <<armed, stray>>

LoopFireNext ==
    /\ Alive
    /\ UNCHANGED nx
    /\ loop.pc = "fire_next"
    /\ CallNext("fire_store", "fire_spawn")
    /\ UNCHANGED <<nextID, tasks, taskMus, mode, cb, muHolder, rwWriter, rwReaders, run,
                   add, del, closed, stopped, cancelled, ext, adding, workers, crashed,
                   hist>>

\* s.tasks[id] = task, after arming the timer (fire branch and addTask).
LoopStore ==
    /\ Alive
    /\ UNCHANGED <<stray, nx>>
    /\ loop.pc \in {"fire_store", "add_store"}
    /\ tasks' = tasks \cup {loop.id}
    /\ loop' = IF loop.pc = "fire_store" THEN [loop EXCEPT !.pc = "fire_spawn"]
               ELSE [loop EXCEPT !.pc = "select", !.id = 0]
    /\ UNCHANGED <<nextID, taskMus, times, mode, armed, cb, muHolder, rwWriter, rwReaders,
                   run, add, del, closed, stopped, cancelled, ext, adding, workers,
                   crashed, hist>>

\* A faulty delTask that empties the task table instead of deleting one key.
DelTaskDropsAll(id) ==
    /\ armed' = [armed EXCEPT ![id] = IF id \in tasks THEN FALSE ELSE @]
    /\ tasks' = {}

\* delTask, first critical section: stop the timer and drop the table entry.
DelTaskTasks(id) ==
    /\ armed' = [armed EXCEPT ![id] = IF id \in tasks THEN FALSE ELSE @]
    /\ tasks' = tasks \ {id}

LoopDelTasks ==
    /\ Alive
    /\ UNCHANGED <<stray, nx>>
    /\ loop.pc = "del_tasks"
    /\ DelTaskTasks(loop.id)
    /\ loop' = [loop EXCEPT !.pc = "del_mus"]
    /\ UNCHANGED <<nextID, taskMus, times, mode, cb, muHolder, rwWriter, rwReaders, run,
                   add, del, closed, stopped, cancelled, ext, adding, workers, crashed,
                   hist>>

\* delTask, second critical section: drop the per-task mutex.
LoopDelMus ==
    /\ Alive
    /\ UNCHANGED <<stray, nx>>
    /\ loop.pc = "del_mus"
    /\ taskMus' = taskMus \ {loop.id}
    /\ loop' = [loop EXCEPT !.pc = loop.ret, !.ret = "select",
                             !.id = IF loop.ret = "select" THEN 0 ELSE @]
    /\ UNCHANGED <<nextID, tasks, times, mode, armed, cb, muHolder, rwWriter, rwReaders,
                   run, add, del, closed, stopped, cancelled, ext, adding, workers,
                   crashed, hist>>

\* A faulty switch whose blocking case takes only the shared gate.
PreambleUnserialized(m) ==
    IF m = "globalBlocking" THEN "wlock" ELSE "rlock"

\* A faulty switch whose globalBlocking case takes the gate in shared mode.
PreambleAllShared(m) ==
    IF m = "blocking" THEN "lookup" ELSE "rlock"

\* A faulty switch whose nonBlocking case takes the gate exclusively.
PreambleAllExclusive(m) ==
    IF m = "blocking" THEN "lookup" ELSE "wlock"

\* The worker's first lock step, by isolation mode (the switch of taskRunner).
Preamble(m) ==
    IF m = "nonBlocking" THEN "rlock"
    ELSE IF m = "blocking" THEN "lookup"
    ELSE "wlock"

\* go s.taskRunner(task)
LoopSpawn ==
    /\ Alive
    /\ UNCHANGED <<stray, nx>>
    /\ loop.pc = "fire_spawn"
    /\ workers' = Append(workers, [task |-> loop.id, pc |-> Preamble(mode[loop.id])])
    /\ loop' = [loop EXCEPT !.pc = "select", !.id = 0]
    /\ UNCHANGED <<nextID, tasks, taskMus, times, mode, armed, cb, muHolder, rwWriter,
                   rwReaders, run, add, del, closed, stopped, cancelled, ext, adding,
                   crashed, hist>>

\* case task, ok := <-s.add, and addTask's s.tasks[task.id] = task.
LoopRecvAdd ==
    /\ Alive
    /\ UNCHANGED <<stray, nx>>
    /\ AtSelect
    /\ add # <<>>
    /\ add' = Tail(add)
    /\ tasks' = tasks \cup {Head(add)}
    /\ loop' = [loop EXCEPT !.pc = "add_mus", !.id = Head(add)]
    /\ hist' = [hist EXCEPT !.handled = Append(@, <<"add", Head(add)>>)]
    /\ UNCHANGED <<nextID, taskMus, times, mode, armed, cb, muHolder, rwWriter, rwReaders,
                   run, del, closed, stopped, cancelled, ext, adding, workers, crashed>>

\* addTask: s.taskMus[task.id] = new(sync.Mutex)
LoopAddMus ==
    /\ Alive
    /\ UNCHANGED <<stray, nx>>
    /\ loop.pc = "add_mus"
    /\ taskMus' = taskMus \cup {loop.id}
    /\ loop' = [loop EXCEPT !.pc = "add_next"]
    /\ UNCHANGED <<nextID, tasks, times, mode, armed, cb, muHolder, rwWriter, rwReaders,
                   run, add, del, closed, stopped, cancelled, ext, adding, workers,
                   crashed, hist>>

LoopAddNext ==
    /\ Alive
    /\ UNCHANGED nx
    /\ loop.pc = "add_next"
    /\ CallNext("add_store", "select")
    /\ UNCHANGED <<nextID, tasks, taskMus, mode, cb, muHolder, rwWriter, rwReaders, run,
                   add, del, closed, stopped, cancelled, ext, adding, workers, crashed,
                   hist>>

\* case id, ok := <-s.del, and delTask's first critical section.
LoopRecvDel ==
    /\ Alive
    /\ UNCHANGED <<stray, nx>>
    /\ AtSelect
    /\ del # <<>>
    /\ del' = Tail(del)
    /\ DelTaskTasks(Head(del))
    /\ loop' = [loop EXCEPT !.pc = "del_mus", !.id = Head(del), !.ret = "select"]
    /\ hist' = [hist EXCEPT !.handled = Append(@, <<"del", Head(del)>>),
                            !.delEarly = IF Head(del) \in hist.fired THEN @
                                         ELSE @ \cup {Head(del)}]
    /\ UNCHANGED <<nextID, taskMus, times, mode, cb, muHolder, rwWriter, rwReaders, run,
                   add, closed, stopped, cancelled, ext, adding, workers, crashed>>

\* ---------------------------------------------------------------- timers
\* A faulty timer that stays armed after it expires, like a ticker.
FiresRepeatedly == TRUE

\* Whether a timer made by time.AfterFunc is still armed after it expired.
StillArmedAfterFire == FALSE

\* A timer of id expires: its callback starts on its own goroutine.
TimerFire(id) ==
    /\ Alive
    /\ UNCHANGED nx
    /\ armed[id] \/ stray[id] > 0
    /\ hist.nfires < MaxWorkers
    /\ Events < MaxEvents
    /\ IF armed[id]
         THEN armed' = [armed EXCEPT ![id] = StillArmedAfterFire] /\ UNCHANGED stray
         ELSE stray' = [stray EXCEPT ![id] = @ - 1] /\ UNCHANGED armed
    /\ cb' = [cb EXCEPT ![id] = "check"]
    /\ hist' = [hist EXCEPT !.fired = @ \cup {id}, !.nfires = @ + 1]
    /\ UNCHANGED <<nextID, tasks, taskMus, times, mode, muHolder, rwWriter, rwReaders, run,
                   add, del, closed, stopped, cancelled, loop, ext, adding, workers,
                   crashed>>

\* if !s.stopped.Load()
CbCheck(id) ==
    /\ Alive
    /\ UNCHANGED <<stray, nx>>
    /\ cb[id] = "check"
    /\ cb' = [cb EXCEPT ![id] = IF stopped THEN "idle" ELSE "send"]
    /\ UNCHANGED <<nextID, tasks, taskMus, times, mode, armed, muHolder, rwWriter,
                   rwReaders, run, add, del, closed, stopped, cancelled, loop, ext, adding,
                   workers, crashed, hist>>

\* s.run <- id
CbSend(id) ==
    /\ Alive
    /\ UNCHANGED <<stray, nx>>
    /\ cb[id] = "send"
    /\ IF "run" \in closed
         THEN /\ crashed' = "send on closed run"
              /\ UNCHANGED <<run, cb>>
         ELSE /\ Len(run) < ChanCap
              /\ run' = Append(run, id)
              /\ cb' = [cb EXCEPT ![id] = "idle"]
              /\ UNCHANGED crashed
    /\ UNCHANGED <<nextID, tasks, taskMus, times, mode, armed, muHolder, rwWriter,
                   rwReaders, add, del, closed, stopped, cancelled, loop, ext, adding,
                   workers, hist>>

\* --------------------------------------------------------------- workers
WorkerIds == 1..Len(workers)

\* taskMu := s.taskMus[task.id]; a missing key gives a nil *sync.Mutex, and
\* taskMu.Lock() on it is a nil dereference before any recover is deferred.
WLookup(w) ==
    /\ Alive
    /\ UNCHANGED <<stray, nx>>
    /\ workers[w].pc = "lookup"
    /\ IF workers[w].task \in taskMus
         THEN /\ workers' = [workers EXCEPT ![w].pc = "mulock"]
              /\ UNCHANGED crashed
         ELSE /\ workers' = [workers EXCEPT ![w].pc = "panicked"]
              /\ crashed' = "nil mutex"
    /\ UNCHANGED <<nextID, tasks, taskMus, times, mode, armed, cb, muHolder, rwWriter,
                   rwReaders, run, add, del, closed, stopped, cancelled, loop, ext, adding,
                   hist>>

\* taskMu.Lock()
WMuLock(w) ==
    /\ Alive
    /\ UNCHANGED <<stray, nx>>
    /\ workers[w].pc = "mulock"
    /\ muHolder[workers[w].task] = 0
    /\ muHolder' = [muHolder EXCEPT ![workers[w].task] = w]
    /\ workers' = [workers EXCEPT ![w].pc = "rlock"]
    /\ UNCHANGED <<nextID, tasks, taskMus, times, mode, armed, cb, rwWriter, rwReaders, run,
                   add, del, closed, stopped, cancelled, loop, ext, adding, crashed, hist>>

\* s.globalTaskMu.RLock(): waits while a writer holds or waits for the gate.
WRLock(w) ==
    /\ Alive
    /\ UNCHANGED <<stray, nx>>
    /\ workers[w].pc = "rlock"
    /\ rwWriter = 0
    /\ rwReaders' = rwReaders \cup {w}
    /\ workers' = [workers EXCEPT ![w].pc = "job"]
    /\ UNCHANGED <<nextID, tasks, taskMus, times, mode, armed, cb, muHolder, rwWriter, run,
                   add, del, closed, stopped, cancelled, loop, ext, adding, crashed, hist>>

\* s.globalTaskMu.Lock(), first half: become the pending writer.
WWLock(w) ==
    /\ Alive
    /\ UNCHANGED <<stray, nx>>
    /\ workers[w].pc = "wlock"
    /\ rwWriter = 0
    /\ rwWriter' = w
    /\ workers' = [workers EXCEPT ![w].pc = "wdrain"]
    /\ UNCHANGED <<nextID, tasks, taskMus, times, mode, armed, cb, muHolder, rwReaders, run,
                   add, del, closed, stopped, cancelled, loop, ext, adding, crashed, hist>>

\* s.globalTaskMu.Lock(), second half: wait for the active readers to leave.
WDrain(w) ==
    /\ Alive
    /\ UNCHANGED <<stray, nx>>
    /\ workers[w].pc = "wdrain"
    /\ rwReaders = {}
    /\ workers' = [workers EXCEPT ![w].pc = "job"]
    /\ UNCHANGED <<nextID, tasks, taskMus, times, mode, armed, cb, muHolder, rwWriter,
                   rwReaders, run, add, del, closed, stopped, cancelled, loop, ext, adding,
                   crashed, hist>>

\* A faulty worker that unlocks after the job call instead of deferring.
UnwindsUnlessPanic(o) == o # "panic"

\* A faulty worker that unlocks only on the path where the job returned nil.
UnwindsOnlyOnSuccess(o) == o = "ok"

\* Whether the deferred unlocks run when the job ends with outcome o.
Unwinds(o) == TRUE

\* Whether the deferred recover() stops a panic of the job.
Recovered(o) == TRUE

\* A faulty worker that deletes the task when its job fails.
CancelsOnFailure(o) == o # "ok"

\* Whether the worker cancels the task after outcome o (it only logs).
Cancels(o) == FALSE

\* task.job() ends with outcome o; the deferred recover and unlocks run.
WJobEnd(w, o) ==
    /\ Alive
    /\ UNCHANGED <<stray, nx>>
    /\ workers[w].pc = "job"
    /\ workers' = [workers EXCEPT ![w].pc = "done"]
    /\ rwReaders' = IF Unwinds(o) THEN rwReaders \ {w} ELSE rwReaders
    /\ rwWriter' = IF Unwinds(o) /\ rwWriter = w THEN 0 ELSE rwWriter
    /\ muHolder' = [i \in Ids |-> IF Unwinds(o) /\ muHolder[i] = w THEN 0 ELSE muHolder[i]]
    /\ crashed' = IF o = "panic" /\ ~Recovered(o) THEN "job panic" ELSE crashed
    /\ tasks' = IF Cancels(o) THEN tasks \ {workers[w].task} ELSE tasks
    /\ armed' = IF Cancels(o) THEN [armed EXCEPT ![workers[w].task] = FALSE] ELSE armed
    /\ hist' = [hist EXCEPT !.lastOut = o]
    /\ UNCHANGED <<nextID, taskMus, times, mode, cb, run, add, del, closed, stopped,
                   cancelled, loop, ext, adding>>

\* ------------------------------------------------------------------ Next
Next ==
    \/ \E m \in Modes, n \in TimesChoices : AddAssign(m, n)
    \/ \E id \in Ids : AddSend(id)
    \/ \E id \in Ids : Del(id)
    \/ ExtStopCall
    \/ ExtStop
    \/ Cancel
    \/ LoopCtxDone
    \/ LoopStop
    \/ LoopClosed
    \/ LoopRecvRun
    \/ LoopFireNext
    \/ LoopStore
    \/ LoopDelTasks
    \/ LoopDelMus
    \/ LoopSpawn
    \/ LoopRecvAdd
    \/ LoopAddMus
    \/ LoopAddNext
    \/ LoopRecvDel
    \/ \E id \in Ids : TimerFire(id)
    \/ \E id \in Ids : CbCheck(id)
    \/ \E id \in Ids : CbSend(id)
    \/ \E w \in WorkerIds : WLookup(w)
    \/ \E w \in WorkerIds : WMuLock(w)
    \/ \E w \in WorkerIds : WRLock(w)
    \/ \E w \in WorkerIds : WWLock(w)
    \/ \E w \in WorkerIds : WDrain(w)
    \/ \E w \in WorkerIds, o \in Outcomes : WJobEnd(w, o)

Spec == Init /\ [][Next]_vars

\* ================================================= Task.next on the clock
\* A time.Time is an instant `abs`, in clock ticks since Monday 2024-01-01
\* 00:00:00 UTC, with a location `loc`: the offset of its zone east of UTC, in
\* ticks.  The offset of a zone is constant (no daylight-saving change).
Second == TicksPerSec
Hour == 3600 * Second
Weekdays == 0..6         \* time.Sunday .. time.Saturday

IsLeap(y) == (y % 4 = 0 /\ y % 100 # 0) \/ y % 400 = 0
DaysInYear(y) == IF IsLeap(y) THEN 366 ELSE 365
DaysIn(m, y) ==
    IF m = 2 THEN (IF IsLeap(y) THEN 29 ELSE 28)
    ELSE IF m \in {4, 6, 9, 11} THEN 30 ELSE 31
RECURSIVE DaysBeforeYear(_)
DaysBeforeYear(y) == IF y <= 2024 THEN 0 ELSE DaysBeforeYear(y - 1) + DaysInYear(y - 1)
RECURSIVE DaysBeforeMonth(_, _)
DaysBeforeMonth(m, y) == IF m <= 1 THEN 0 ELSE DaysBeforeMonth(m - 1, y) + DaysIn(m - 1, y)

\* time.Date(year, month, day, hour, min, sec, 0, loc); a day past the end of
\* the month runs into the next month.
Date(year, month, day, hour, min, sec, loc) ==
    [abs |-> (DaysBeforeYear(year) + DaysBeforeMonth(month, year) + (day - 1)) * 24 * Hour
             + (hour * 3600 + min * 60 + sec) * Second - loc,
     loc |-> loc]

\* The date and the clock reading of t in its location.
LocalDay(t) == (t.abs + t.loc) \div (24 * Hour)
LocalClock(t) == (t.abs + t.loc) % (24 * Hour)
RECURSIVE YearFrom(_, _)
YearFrom(y, d) == IF d < DaysInYear(y) THEN y ELSE YearFrom(y + 1, d - DaysInYear(y))
YearOf(t) == YearFrom(2024, LocalDay(t))
RECURSIVE MonthFrom(_, _, _)
MonthFrom(m, y, d) == IF d < DaysIn(m, y) THEN m ELSE MonthFrom(m + 1, y, d - DaysIn(m, y))
MonthOf(t) == MonthFrom(1, YearOf(t), LocalDay(t) - DaysBeforeYear(YearOf(t)))
DayOf(t) ==
    LocalDay(t) - DaysBeforeYear(YearOf(t)) - DaysBeforeMonth(MonthOf(t), YearOf(t)) + 1
WeekdayOf(t) == (LocalDay(t) + 1) % 7
HourOf(t) == LocalClock(t) \div Hour
MinuteOf(t) == (LocalClock(t) % Hour) \div (60 * Second)
SecondOf(t) == (LocalClock(t) % (60 * Second)) \div Second

Before(t, u) == t.abs < u.abs
After(t, u) == t.abs > u.abs
TimeAdd(t, d) == [t EXCEPT !.abs = @ + d]
Sub(t, u) == t.abs - u.abs

\* time.Date(now.Year(), now.Month(), now.Day(), t.at.Hour(), t.at.Minute(),
\* t.at.Second(), 0, now.Location()): today at the task's time of day.
TodayAt(t, now) ==
    Date(YearOf(now), MonthOf(now), DayOf(now),
         HourOf(t.at), MinuteOf(t.at), SecondOf(t.at), now.loc)

\* A faulty daily rule that never moves on to tomorrow.
DailyNeverPassed(nextRun, now) == FALSE

\* A faulty daily rule that also moves on when today's instant is exactly now.
DailyPassedOrNow(nextRun, now) == ~After(nextRun, now)

\* daily: if nextRun.Before(now), move to tomorrow.
DailyPassed(nextRun, now) == Before(nextRun, now)

\* A faulty weekly rule that keeps today's instant when it is exactly now.
WeeklyPassedStrictly(nextRun, now) == Before(nextRun, now)

\* weekly: if !nextRun.After(now), move to the next day.
WeeklyPassed(nextRun, now) == ~After(nextRun, now)

\* A faulty scan that looks at six days only.
WeeklyScanOneShort == 7 - 1

\* The days the weekly scan looks at: for i := 0; i < 7; i++.
WeeklyScanDays == 7

\* The weekly scan from its i-th round on.  t.days is the set of the weekdays
\* the map holds true for; a nil map holds true for none.
RECURSIVE WeeklyScan(_, _, _)
WeeklyScan(days, nextRun, i) ==
    IF i >= WeeklyScanDays THEN [found |-> FALSE, nextRun |-> nextRun]
    ELSE IF WeekdayOf(nextRun) \in days THEN [found |-> TRUE, nextRun |-> nextRun]
    ELSE WeeklyScan(days, TimeAdd(nextRun, 24 * Hour), i + 1)

\* A faulty monthly rule that moves to the next month on the day itself,
\* whether or not the run of that day has passed.
MonthlyPassedOnTheDay(t, now) == DayOf(now) >= t.on

\* monthly: the run of this month has passed: now.Day() > t.on, or it is the
\* day and now is after the instant of the run.
MonthlyPassed(t, now) ==
    \/ DayOf(now) > t.on
    \/ /\ DayOf(now) = t.on
       /\ After(now, Date(YearOf(now), MonthOf(now), t.on,
                          HourOf(t.at), MinuteOf(t.at), SecondOf(t.at), now.loc))

\* month++; if month > 12 { month = 1; year++ }
NextMonth(ym) ==
    IF ym.month + 1 > 12 THEN [year |-> ym.year + 1, month |-> 1]
    ELSE [ym EXCEPT !.month = @ + 1]

\* The months the monthly scan looks at: for i := 0; i < 12; i++.
MonthlyScanMonths == 12

\* The monthly scan from its i-th round on.  t.months is the set of the months
\* the map holds true for; a nil map holds true for none.
RECURSIVE MonthlyScan(_, _, _)
MonthlyScan(months, ym, i) ==
    IF i >= MonthlyScanMonths THEN [found |-> FALSE, ym |-> ym]
    ELSE IF ym.month \in months THEN [found |-> TRUE, ym |-> ym]
    ELSE MonthlyScan(months, NextMonth(ym), i + 1)

\* A faulty random rule that draws from [0, randMax) instead of the span.
RandSpanWhole(t) == t.randMax

\* The bound given to rand.Int63n: int64(t.randMax - t.randMin).
RandSpan(t) == t.randMax - t.randMin

\* Task.next at the instant now: the delay to the next run, whether there is
\* one, and the remaining-runs counter it leaves.  rnd is the value rand.Int63n
\* returns to the random variant.
next(t, now, rnd) ==
    IF ~nextKeep(t.times) THEN [delay |-> 0, keep |-> FALSE, times |-> t.times]
    ELSE
      LET left == nextTimes(t.times)
          none == [delay |-> 0, keep |-> FALSE, times |-> left]
          today == TodayAt(t, now)
      IN  CASE t.variant = "once" ->
                 [delay |-> Sub(now, now), keep |-> TRUE, times |-> left]
            [] t.variant = "every" ->
                 [delay |-> Sub(TimeAdd(now, t.duration), now), keep |-> TRUE, times |-> left]
            [] t.variant = "random" ->
                 [delay |-> Sub(TimeAdd(now, t.randMin + rnd), now), keep |-> TRUE,
                  times |-> left]
            [] t.variant = "daily" ->
                 LET nextRun == IF DailyPassed(today, now) THEN TimeAdd(today, 24 * Hour)
                                ELSE today
                 IN  [delay |-> Sub(nextRun, now), keep |-> TRUE, times |-> left]
            [] t.variant = "weekly" ->
                 LET first == IF WeeklyPassed(today, now) THEN TimeAdd(today, 24 * Hour)
                              ELSE today
                     scan == WeeklyScan(t.days, first, 0)
                 IN  IF scan.found
                       THEN [delay |-> Sub(scan.nextRun, now), keep |-> TRUE, times |-> left]
                       ELSE none
            [] t.variant = "monthly" ->
                 IF t.on <= 0 \/ t.on > 31 THEN none
                 ELSE
                   LET this == [year |-> YearOf(now), month |-> MonthOf(now)]
                       scan == MonthlyScan(t.months,
                                           IF MonthlyPassed(t, now) THEN NextMonth(this)
                                           ELSE this, 0)
                       nextRun == Date(scan.ym.year, scan.ym.month, t.on,
                                       HourOf(t.at), MinuteOf(t.at), SecondOf(t.at), now.loc)
                   IN  IF scan.found
                         THEN [delay |-> Sub(nextRun, now), keep |-> TRUE, times |-> left]
                         ELSE none

\* The zero time.Time (January 1 of year 1, outside the modelled years).
ZeroTime == [abs |-> 0 - 1, loc |-> 0]

\* NewTask(job): a task that runs once... forever, until a builder says more.
NewTask ==
    [variant |-> "once", duration |-> 0, at |-> ZeroTime, days |-> {}, months |-> {},
     on |-> 0, times |-> Forever, randMin |-> 0, randMax |-> 0]

\* The inputs of one call of next: zones, current times at the start, the
\* middle and the end of a day with every sub-second reading, and tasks.
Locs == {0 - 5 * Hour, 0, Hour}
ClockChoices == {0, 9 * 3600 - 1, 9 * 3600, 24 * 3600 - 1}
NowOn(days, loc) ==
    {[abs |-> (d * 24 * 3600 + c) * Second + f - loc, loc |-> loc] :
        d \in days, c \in ClockChoices, f \in 0..(TicksPerSec - 1)}
\* The days from 2024-02-28 on.
NowChoices(loc) == NowOn(58..(57 + NowDays), loc)
\* For the monthly rule also 2024-12-30, 2024-12-31 and 2025-01-01.
MonthlyNowChoices(loc) == NowChoices(loc) \cup NowOn(364..366, loc)
AtChoices == {[abs |-> c * Second, loc |-> 0] : c \in {0, 9 * 3600, 24 * 3600 - 1}}
NextTimesChoices == {Forever, 0, 1}
\* Every single month, all twelve, and none (a map whose entries are all false).
MonthsChoices == {1..12, {}} \cup {{m} : m \in 1..12}
OnChoices == {1, 2, 28, 29, 30, 31}
DurationChoices == 0..MaxSpan
\* The tasks the builders give, by variant, with every remaining-runs counter
\* a task can have when next is called.
TasksOf(v) ==
    LET counted == {[NewTask EXCEPT !.variant = v, !.times = n] : n \in NextTimesChoices}
    IN  CASE v = "once" -> counted
          [] v = "every" ->
               {[t EXCEPT !.duration = d] : t \in counted, d \in DurationChoices}
          [] v = "random" ->
               {[t EXCEPT !.randMin = p[1], !.randMax = p[2]] :
                   t \in counted,
                   p \in {q \in DurationChoices \X DurationChoices : q[1] < q[2]}}
          [] v = "daily" ->
               {[t EXCEPT !.at = a] : t \in counted, a \in AtChoices}
          [] v = "weekly" ->
               {[t EXCEPT !.at = a, !.days = ds] :
                   t \in counted, a \in AtChoices, ds \in SUBSET Weekdays}
          [] v = "monthly" ->
               {[t EXCEPT !.at = a, !.months = ms, !.on = o] :
                   t \in counted, a \in AtChoices, ms \in MonthsChoices, o \in OnChoices}
Variants == {"once", "every", "random", "daily", "weekly", "monthly"}
TaskChoices == UNION {TasksOf(v) : v \in Variants}

svars == <<nextID, tasks, taskMus, times, mode, armed, cb, muHolder, rwWriter, rwReaders,
           run, add, del, closed, stopped, cancelled, loop, ext, adding, workers,
           crashed, hist, stray>>

\* A built task, and the clock reading next will get.
InitNext ==
    /\ SchedulerInit
    /\ \E loc \in Locs : \E t \in TaskChoices :
          \E n \in (IF t.variant = "monthly" THEN MonthlyNowChoices(loc)
                    ELSE IF t.variant \in {"daily", "weekly"} THEN NowChoices(loc)
                    ELSE NowOn({58}, loc)) :
             nx = [pc |-> "call", task |-> t, now |-> n,
                   res |-> [delay |-> 0, keep |-> FALSE, times |-> t.times]]

\* next, ok := task.next() on a task of variant v; rnd is what the random
\* source gives.
EvalNext(v, rnd) ==
    /\ nx.pc = "call"
    /\ nx.task.variant = v
    /\ nx' = [nx EXCEPT !.pc = "done", !.res = next(nx.task, nx.now, rnd)]
    /\ UNCHANGED svars

NextOnce ==
    /\ nx.pc = "call"
    /\ EvalNext("once", 0)

NextEvery ==
    /\ nx.pc = "call"
    /\ EvalNext("every", 0)

\* rand.Int63n(n) gives any value of [0, n).
NextRandom ==
    /\ nx.pc = "call"
    /\ \E rnd \in 0..(RandSpan(nx.task) - 1) : EvalNext("random", rnd)

NextDaily ==
    /\ nx.pc = "call"
    /\ EvalNext("daily", 0)

NextWeekly ==
    /\ nx.pc = "call"
    /\ EvalNext("weekly", 0)

NextMonthly ==
    /\ nx.pc = "call"
    /\ EvalNext("monthly", 0)

ClockNext ==
    \/ NextOnce
    \/ NextEvery
    \/ NextRandom
    \/ NextDaily
    \/ NextWeekly
    \/ NextMonthly

SpecNext == InitNext /\ [][ClockNext]_vars

\* ========================================================= the builders
\* A builder call ends in a panic with the task as it is at that point, or
\* returns the task.
Aborted(t) == [panic |-> TRUE, task |-> t]
Built(t) == [panic |-> FALSE, task |-> t]

\* A Go map with bool values is a function from its keys; the task keeps the
\* keys it holds true for.
MapsOver(keys) == UNION {[ks -> BOOLEAN] : ks \in SUBSET keys}
Selected(m) == {k \in DOMAIN m : m[k]}
IsZero(tm) == tm = ZeroTime

Once(t) == Built([t EXCEPT !.variant = "once", !.times = 1])

Every(t, duration) ==
    IF duration < 0 THEN Aborted(t)
    ELSE Built([t EXCEPT !.variant = "every", !.duration = duration])

RandomInterval(t, min, max) ==
    IF min < 0 \/ max < 0 THEN Aborted(t)
    ELSE IF min >= max THEN Aborted(t)
    ELSE Built([t EXCEPT !.variant = "random", !.randMin = min, !.randMax = max])

Daily(t, at) ==
    IF IsZero(at) THEN Aborted(t)
    ELSE Built([t EXCEPT !.variant = "daily", !.at = at])

Weekly(t, days, at) ==
    IF Cardinality(DOMAIN days) = 0 THEN Aborted(t)
    ELSE IF IsZero(at) THEN Aborted(t)
    ELSE Built([t EXCEPT !.variant = "weekly", !.days = Selected(days), !.at = at])

Monthly(t, months, on, at) ==
    IF Cardinality(DOMAIN months) = 0 THEN Aborted(t)
    ELSE IF on <= 0 \/ on > 31 THEN Aborted(t)
    ELSE IF IsZero(at) THEN Aborted(t)
    ELSE Built([t EXCEPT !.variant = "monthly", !.months = Selected(months), !.on = on,
                         !.at = at])

\* A faulty Times that stores its argument before it checks it.
TimesStoresFirst(t, n) ==
    IF n <= 0 THEN Aborted([t EXCEPT !.times = n]) ELSE Built([t EXCEPT !.times = n])

Times(t, n) ==
    IF n <= 0 THEN Aborted(t) ELSE Built([t EXCEPT !.times = n])

RunForever(t) == Built([t EXCEPT !.times = Forever])

\* The arguments callers give, legal and illegal.
DurationArgs == (0 - 1)..2
TimesArgs == (0 - 1)..MaxTimes
OnArgs == {0, 1, 31, 32}
AtArgs == {ZeroTime, [abs |-> 9 * Hour, loc |-> 0]}
DaysArgs == MapsOver({1, 3})
MonthsArgs == MapsOver({2, 12})

\* NewTask(job), with no builder called yet.
InitBuild ==
    /\ SchedulerInit
    /\ nx = [pc |-> "build", task |-> NewTask, prev |-> NewTask,
             call |-> [op |-> "NewTask", args |-> <<>>], calls |-> 0]

\* One more builder call on the task: r is what it gives.
Called(op, args, r) ==
    /\ nx.pc = "build"
    /\ nx.calls < MaxCalls
    /\ nx' = [pc |-> IF r.panic THEN "aborted" ELSE "build", task |-> r.task,
              prev |-> nx.task, call |-> [op |-> op, args |-> args], calls |-> nx.calls + 1]
    /\ UNCHANGED svars

BuildOnce ==
    /\ nx.pc = "build"
    /\ Called("Once", <<>>, Once(nx.task))

BuildEvery ==
    /\ nx.pc = "build"
    /\ \E d \in DurationArgs : Called("Every", <<d>>, Every(nx.task, d))

BuildRandomInterval ==
    /\ nx.pc = "build"
    /\ \E lo \in DurationArgs, hi \in DurationArgs :
          Called("RandomInterval", <<lo, hi>>, RandomInterval(nx.task, lo, hi))

BuildDaily ==
    /\ nx.pc = "build"
    /\ \E at \in AtArgs : Called("Daily", <<at>>, Daily(nx.task, at))

BuildWeekly ==
    /\ nx.pc = "build"
    /\ \E days \in DaysArgs, at \in AtArgs :
          Called("Weekly", <<days, at>>, Weekly(nx.task, days, at))

BuildMonthly ==
    /\ nx.pc = "build"
    /\ \E months \in MonthsArgs, on \in OnArgs, at \in AtArgs :
          Called("Monthly", <<months, on, at>>, Monthly(nx.task, months, on, at))

BuildTimes ==
    /\ nx.pc = "build"
    /\ \E n \in TimesArgs : Called("Times", <<n>>, Times(nx.task, n))

BuildForever ==
    /\ nx.pc = "build"
    /\ Called("Forever", <<>>, RunForever(nx.task))

BuildNext ==
    \/ BuildOnce
    \/ BuildEvery
    \/ BuildRandomInterval
    \/ BuildDaily
    \/ BuildWeekly
    \/ BuildMonthly
    \/ BuildTimes
    \/ BuildForever

SpecBuild == InitBuild /\ [][BuildNext]_vars

\* ================================================================ claims
Running(w) == workers[w].pc = "job"
Ended(w) == workers[w].pc \in {"done", "panicked"}
WorkersOf(id) == {w \in WorkerIds : workers[w].task = id}
Spawned(id) == Cardinality(WorkersOf(id))
Executed(id) == Cardinality({w \in WorkersOf(id) : workers[w].pc = "done"})
HoldsNothing(w) ==
    /\ w \notin rwReaders
    /\ rwWriter # w
    /\ \A i \in Ids : muHolder[i] # w

\* C1: no two executions of the job of one Blocking task are in progress at
\* the same time, under every interleaving of fires, workers, Add and Del.
C1_BlockingSerialized ==
    \A w1 \in WorkerIds, w2 \in WorkerIds :
        (/\ w1 # w2
         /\ workers[w1].task = workers[w2].task
         /\ mode[workers[w1].task] = "blocking"
         /\ Running(w1))
        => ~Running(w2)

\* A firing of a Blocking task runs its job while a second firing of the same
\* task waits for the per-task mutex.
C1_Witness ==
    \E w1 \in WorkerIds, w2 \in WorkerIds :
        /\ workers[w1].task = workers[w2].task
        /\ mode[workers[w1].task] = "blocking"
        /\ Running(w1)
        /\ workers[w2].pc = "mulock"

\* C2: while the job of a GlobalBlocking task executes, it is the only
\* execution in progress.
C2_GlobalExclusive ==
    \A w1 \in WorkerIds, w2 \in WorkerIds :
        (/\ w1 # w2
         /\ mode[workers[w1].task] = "globalBlocking"
         /\ Running(w1))
        => ~Running(w2)

\* A GlobalBlocking job runs while a firing of another task waits for the gate.
C2_Witness ==
    \E w1 \in WorkerIds, w2 \in WorkerIds :
        /\ workers[w1].task # workers[w2].task
        /\ mode[workers[w1].task] = "globalBlocking"
        /\ Running(w1)
        /\ workers[w2].pc = "rlock"

\* C3: a task admitted with Times(n), never deleted, on a scheduler that is
\* not stopped and whose jobs terminate, has its job executed exactly n
\* times, in every isolation mode: never more than n, and n once the workers
\* of its n fires have ended.
C3_ExactlyNExecutions ==
    \A id \in Ids :
        (/\ hist.n0[id] > 0
         /\ hist.dels = 0
         /\ ext.pc = "idle"
         /\ ~cancelled)
        => /\ Executed(id) <= hist.n0[id]
           /\ (Spawned(id) = hist.n0[id] /\ \A w \in WorkersOf(id) : Ended(w))
                  => Executed(id) = hist.n0[id]

\* C4: a task admitted with Times(n) is handed to a worker at most n times,
\* and once its n-th fire has been processed it is absent from the task
\* table and no timer is armed for it.
C4_TimesBound ==
    \A id \in Ids :
        hist.n0[id] > 0 =>
            /\ Spawned(id) <= hist.n0[id]
            /\ Spawned(id) = hist.n0[id] => (id \notin tasks /\ ~armed[id])

\* A Times(MaxTimes) task whose last fire has been processed.
C4_Witness ==
    \E id \in Ids : hist.n0[id] = MaxTimes /\ Spawned(id) = MaxTimes

\* C5: after Add then Del(id) by one caller, if the dispatch loop processes
\* the deletion before the task's first timer has fired, the job is never
\* executed and the task is not in the task table afterwards.
C5_DeleteBeforeFirstFire ==
    \A id \in hist.delEarly :
        /\ id \notin tasks
        /\ \A w \in WorkersOf(id) : workers[w].pc \notin {"job", "done"}

\* C6: the dispatch loop handles a caller's Add(t) before that caller's later
\* Del(id): every handled deletion of an id follows the handled admission.
C6_SubmissionOrder ==
    \A i \in 1..Len(hist.handled) :
        hist.handled[i][1] = "del" =>
            \E j \in 1..(i - 1) : hist.handled[j] = <<"add", hist.handled[i][2]>>

\* C7: a timer callback never sends on the fire channel after Stop closed it.
C7_NoSendAfterClose == crashed # "send on closed run"

\* C8: a worker of a Blocking task that finds its per-task mutex missing ends
\* without running the job and without an unrecovered panic.
C8_MissingMutexTolerated ==
    \A w \in WorkerIds : workers[w].pc # "panicked"

\* C9: a worker that has ended, whatever the outcome of its job, holds
\* neither the global gate nor a per-task mutex, and a job panic never ends
\* the process.
C9_EndReleasesLocks ==
    /\ \A w \in WorkerIds : Ended(w) => HoldsNothing(w)
    /\ crashed # "job panic"

\* The one worker that has ended ran a Blocking task's job, which panicked.
C9_Witness ==
    \E w \in WorkerIds :
        /\ workers[w].pc = "done"
        /\ mode[workers[w].task] = "blocking"
        /\ hist.lastOut = "panic"
        /\ \A w2 \in WorkerIds \ {w} : workers[w2].pc # "done"

\* C10: the end of a job, with any outcome, leaves the task table, the
\* remaining-runs counters, the armed timers and the mutex table as they were.
C10_JobEndKeepsSchedule ==
    [][\A w \in WorkerIds :
          (workers[w].pc = "job" /\ workers'[w].pc = "done")
          => (tasks' = tasks /\ times' = times /\ armed' = armed /\ taskMus' = taskMus)]_vars

\* The one job that has ended failed, and its task is still in the table with
\* its next timer armed.
C10_Witness ==
    \E w \in WorkerIds :
        /\ workers[w].pc = "done"
        /\ hist.lastOut \in {"error", "panic"}
        /\ \A w2 \in WorkerIds \ {w} : workers[w2].pc # "done"
        /\ workers[w].task \in tasks
        /\ armed[workers[w].task]

\* C11: admissions are handled in increasing id order (if the loop handles A's
\* admission before B's then id(A) < id(B)), with callers of Add running
\* concurrently, and no id is given out twice.
C11_MonotonicIds ==
    /\ \A i \in 1..Len(hist.handled), j \in 1..Len(hist.handled) :
          (i < j /\ hist.handled[i][1] = "add" /\ hist.handled[j][1] = "add")
          => hist.handled[i][2] < hist.handled[j][2]
    /\ \A i \in Ids : (adding[i] # "none") <=> (i <= nextID)

ArmedTimers(id) == (IF armed[id] THEN 1 ELSE 0) + stray[id]

\* C12: for each task in the task table at most one timer whose callback
\* targets its id is armed, after any admissions, fires and deletions.
C12_OneArmedTimer ==
    \A id \in tasks : ArmedTimers(id) <= 1

\* A task whose fire was handled is in the table with its next timer armed,
\* while another task was deleted.
C12_Witness ==
    \E id \in tasks :
        /\ ArmedTimers(id) = 1
        /\ Spawned(id) >= 1
        /\ \E i \in 1..Len(hist.handled) : hist.handled[i][1] = "del"

\* A call of Stop returns with this step: the last close did not panic.
StopReturns ==
    /\ crashed' = "none"
    /\ \/ ext.pc = "stop" /\ ext'.pc = "done"
       \/ loop.pc = "stop" /\ loop'.pc = "returned"

\* C13: when Stop returns (run by Run on cancellation, or called directly while
\* the dispatch loop is handling events) the stopped flag is set, the task
\* table and the mutex table are empty, no timer is armed and the three
\* channels are closed.
C13_StopPostState ==
    [][StopReturns =>
         /\ stopped'
         /\ tasks' = {}
         /\ taskMus' = {}
         /\ \A i \in Ids : ArmedTimers(i)' = 0
         /\ closed' = {"run", "add", "del"}]_vars

DelHandled(id) == \E i \in 1..Len(hist.handled) : hist.handled[i] = <<"del", id>>

\* C14: once the dispatch loop has handled Delete(id), no worker is spawned for
\* id any more.
C14_NoSpawnAfterDelete ==
    [][\A id \in Ids : DelHandled(id) => Spawned(id)' = Spawned(id)]_vars

DelTaskReturns(id) == loop.pc = "del_mus" /\ loop'.pc # "del_mus" /\ loop.id = id

\* The dispatch loop takes a step of delTask(id): its first critical section
\* (reached from the deletion branch or from an exhausted schedule) or its second.
DelTaskStep(id) ==
    \/ loop.pc = "select" /\ loop'.pc = "del_mus" /\ loop'.id = id
    \/ loop.pc = "del_tasks" /\ loop'.pc = "del_mus" /\ loop.id = id
    \/ DelTaskReturns(id)

\* C15: Delete is idempotent. Handling Delete(id) leaves id in neither table,
\* handling it when id is in neither table changes no table and no timer, and
\* it never changes the entry, the mutex or the timer of another task.
C15_DeleteIdempotent ==
    [][\A id \in Ids : DelTaskStep(id) =>
         /\ \A j \in Ids \ {id} :
               /\ (j \in tasks') = (j \in tasks)
               /\ (j \in taskMus') = (j \in taskMus)
               /\ armed'[j] = armed[j] /\ stray'[j] = stray[j]
         /\ (id \notin tasks /\ id \notin taskMus) =>
               (tasks' = tasks /\ taskMus' = taskMus /\ armed' = armed /\ stray' = stray)
         /\ DelTaskReturns(id) => (id \notin tasks' /\ id \notin taskMus')]_vars

\* Delete(id) was handled twice after the admission of id, and another task is
\* still in both tables with its timer armed.
C15_Witness ==
    /\ loop.pc = "select"
    /\ \E id \in Ids, k, i, j \in 1..Len(hist.handled) :
          /\ k < i /\ i < j
          /\ hist.handled[k] = <<"add", id>>
          /\ hist.handled[i] = <<"del", id>>
          /\ hist.handled[j] = <<"del", id>>
          /\ \E o \in Ids \ {id} : o \in tasks /\ o \in taskMus /\ armed[o]

\* A step of the goroutine of Run.
LoopStep ==
    \/ LoopCtxDone \/ LoopStop \/ LoopClosed
    \/ LoopRecvRun \/ LoopFireNext \/ LoopStore \/ LoopDelTasks \/ LoopDelMus \/ LoopSpawn
    \/ LoopRecvAdd \/ LoopAddMus \/ LoopAddNext
    \/ LoopRecvDel

\* C16: after ctx is cancelled Run goes on to perform Stop and to return: as
\* long as it has not returned it can take its next step. Before cancellation
\* Run has not returned unless Stop was called.
C16_RunReturnsAfterCancel ==
    /\ (cancelled /\ loop.pc # "returned") => ENABLED LoopStep
    /\ (loop.pc = "returned" /\ ~cancelled) => ext.pc # "idle"

ModeOf(w) == mode[workers[w].task]
WorkerStep(w) ==
    \/ WLookup(w) \/ WMuLock(w) \/ WRLock(w) \/ WWLock(w) \/ WDrain(w)
    \/ \E o \in Outcomes : WJobEnd(w, o)
\* Worker v has called globalTaskMu.Lock for a GlobalBlocking task.
AtGlobalGate(v) == ModeOf(v) = "globalBlocking" /\ workers[v].pc \in {"wdrain", "job"}

\* C17: isolation serializes no more than promised. A worker of a NonBlocking
\* or Blocking task that cannot take its next step is held up by a
\* GlobalBlocking execution, or it is a Blocking worker held up by another
\* worker of its own task; so NonBlocking executions overlap each other, and
\* Blocking executions overlap those of other tasks.
C17_OnlyPromisedBlocking ==
    \A w \in WorkerIds :
        (Alive /\ ~Ended(w) /\ ModeOf(w) # "globalBlocking" /\ ~ENABLED WorkerStep(w))
        => \/ \E v \in WorkerIds \ {w} : AtGlobalGate(v)
           \/ /\ ModeOf(w) = "blocking"
              /\ \E v \in WorkerIds \ {w} :
                    workers[v].task = workers[w].task /\ muHolder[workers[w].task] = v

\* The jobs of two different Blocking tasks are in progress together.
C17_Witness ==
    \E v, w \in WorkerIds :
        /\ workers[v].task # workers[w].task
        /\ ModeOf(v) = "blocking" /\ ModeOf(w) = "blocking"
        /\ Running(v) /\ Running(w)

\* One call of next returned, on a task of variant v that had runs remaining.
Returned(v) == nx.pc = "done" /\ nx.task.variant = v /\ nx.task.times # 0
\* The task's time of day and the clock reading of now, in ticks since midnight.
AtClock == (HourOf(nx.task.at) * 3600 + MinuteOf(nx.task.at) * 60 + SecondOf(nx.task.at)) * Second
NowClock == LocalClock(nx.now)
\* The returned delay ends k days after today's date, at the task's time of day.
LandsAfterDays(k) ==
    LET due == TimeAdd(nx.now, nx.res.delay)
    IN  LocalDay(due) = LocalDay(nx.now) + k /\ LocalClock(due) = AtClock

DaysAhead ==
    {k \in 0..7 : /\ (WeekdayOf(nx.now) + k) % 7 \in nx.task.days
                  /\ k * 24 * Hour + AtClock - NowClock > 0}
EarliestDelay ==
    LET k == CHOOSE k \in DaysAhead : \A j \in DaysAhead : k <= j
    IN  k * 24 * Hour + AtClock - NowClock

ThisMonth == [year |-> YearOf(nx.now), month |-> MonthOf(nx.now)]
TargetsMonth(ym) ==
    nx.now.abs + nx.res.delay
        = Date(ym.year, ym.month, nx.task.on, HourOf(nx.task.at), MinuteOf(nx.task.at),
               SecondOf(nx.task.at), nx.now.loc).abs

\* C21: Monthly with all twelve months selected: if today's day of the month
\* is less than on, next targets the current month, otherwise the next month
\* (December rolls into January of the next year); keep = true.
C21_MonthlyTarget ==
    (Returned("monthly") /\ nx.task.months = 1..12) =>
        /\ nx.res.keep
        /\ IF DayOf(nx.now) < nx.task.on THEN TargetsMonth(ThisMonth)
           ELSE TargetsMonth(NextMonth(ThisMonth))

\* C21, amended: next targets the next month if today's day of the month is
\* greater than on, or is on with the task's time of day already passed;
\* otherwise (today is before on, or it is on and the time of day is now or
\* still to come) it targets the current month; keep = true.
C21_MonthlyTargetPassed ==
    (Returned("monthly") /\ nx.task.months = 1..12) =>
        /\ nx.res.keep
        /\ IF \/ DayOf(nx.now) > nx.task.on
              \/ DayOf(nx.now) = nx.task.on /\ AtClock < NowClock
             THEN TargetsMonth(NextMonth(ThisMonth))
             ELSE TargetsMonth(ThisMonth)

\* On day `on` itself, before the task's time of day: the run is today.
C21_Witness ==
    /\ Returned("monthly") /\ nx.task.months = 1..12
    /\ DayOf(nx.now) = nx.task.on /\ AtClock > NowClock
    /\ nx.res.keep /\ TargetsMonth(ThisMonth) /\ LandsAfterDays(0)

\* C22: RandomInterval(min, max) with 0 <= min < max and runs remaining: every
\* delay next returns satisfies min <= delay < max, whatever value the random
\* source gives.
C22_RandomInRange ==
    Returned("random") =>
        /\ nx.res.keep
        /\ nx.task.randMin <= nx.res.delay
        /\ nx.res.delay < nx.task.randMax

\* The random source gave its largest value for a span that starts above 0:
\* the delay is the last one below max.
C22_Witness ==
    /\ Returned("random")
    /\ nx.task.randMin > 0
    /\ nx.task.randMax - nx.task.randMin > 1
    /\ nx.res.keep /\ nx.res.delay = nx.task.randMax - 1

\* The inputs the builders must refuse.
IllegalCall(c) ==
    \/ c.op = "Every" /\ c.args[1] < 0
    \/ c.op = "RandomInterval" /\ (c.args[1] < 0 \/ c.args[2] < 0 \/ c.args[1] >= c.args[2])
    \/ c.op = "Weekly" /\ DOMAIN c.args[1] = {}
    \/ c.op = "Monthly" /\ (DOMAIN c.args[1] = {} \/ c.args[2] < 1 \/ c.args[2] > 31)
    \/ c.op = "Times" /\ c.args[1] <= 0

\* C23: a builder call with illegal input aborts, an aborted call leaves the
\* task descriptor (variant, timing fields, remaining-runs counter) as it was
\* before the call, and a task the builders return has times -1 or positive.
C23_IllegalInputAborts ==
    nx.pc \in {"build", "aborted"} =>
        /\ IllegalCall(nx.call) => nx.pc = "aborted"
        /\ nx.pc = "aborted" => nx.task = nx.prev
        /\ nx.pc = "build" => (nx.task.times = Forever \/ nx.task.times > 0)

\* An illegal call aborted on a task that an earlier builder call had changed.
C23_Witness ==
    /\ nx.pc = "aborted" /\ IllegalCall(nx.call)
    /\ nx.calls = 2
    /\ nx.task # NewTask /\ nx.task = nx.prev

\* The dispatch loop's step `go s.taskRunner(task)`.
SpawnStep == loop.pc = "fire_spawn" /\ Len(workers') = Len(workers) + 1

\* C24: whenever the dispatch loop spawns a worker for a task id, the per-task
\* mutex of that id is in the mutex table, the task's last fire included.
C24_MutexPresentAtSpawn == [][SpawnStep => loop.id \in taskMus]_vars

\* The dispatch loop receives a fire event from s.run.
FireReceived == AtSelect /\ run # <<>> /\ run' = Tail(run)

\* C25: on a fire event for a task in the table the dispatch loop first calls
\* next, then arms the next timer and stores the task or retires it, and only
\* then spawns the worker: one worker per fire, appended by the spawn step that
\* ends the branch, and by no other step.
C25_RearmBeforeSpawn ==
    [][/\ (FireReceived /\ Head(run) \in tasks) =>
              (loop'.pc = "fire_next" /\ loop'.id = Head(run))
       /\ (loop.pc = "fire_next" /\ loop'.pc # "fire_next") =>
              /\ times'[loop.id] = nextTimes(times[loop.id])
              /\ IF nextKeep(times[loop.id])
                   THEN loop'.pc = "fire_store" /\ armed'[loop.id]
                   ELSE loop'.pc = "del_tasks" /\ loop'.ret = "fire_spawn"
       /\ (loop'.pc = "fire_spawn" /\ loop.pc # "fire_spawn") =>
              \/ loop.pc = "fire_store" /\ loop.id \in tasks'
              \/ loop.pc = "del_mus" /\ loop.ret = "fire_spawn" /\ loop.id \notin taskMus'
       /\ (loop.pc = "fire_spawn" /\ loop'.pc # "fire_spawn") =>
              /\ loop'.pc = "select"
              /\ workers' = Append(workers, [task |-> loop.id, pc |-> workers'[Len(workers')].pc])
       /\ Len(workers') # Len(workers) => SpawnStep
      ]_vars

\* The loop is back at its select after a fire that armed the next timer and
\* spawned the worker, and after a last fire that retired the task and spawned.
C25_Witness ==
    /\ AtSelect
    /\ \E v \in WorkerIds, w \in WorkerIds :
          /\ armed[workers[v].task] /\ workers[v].task \in tasks
          /\ workers[w].task \notin tasks /\ times[workers[w].task] = 0

\* Worker w holds or waits for the global gate.
InGate(w) == w \in rwReaders \/ rwWriter = w

\* C26: the locking protocol is deadlock-free. A worker that is about to take
\* its per-task mutex holds no part of the global gate, and only workers of
\* Blocking tasks hold per-task mutexes; and as long as the process lives and
\* some worker has not finished, some worker is running its job (which ends) or
\* can take its next lock step.
C26_LockingDeadlockFree ==
    /\ \A w \in WorkerIds : workers[w].pc \in {"lookup", "mulock"} => ~InGate(w)
    /\ \A w \in WorkerIds : (\E i \in Ids : muHolder[i] = w) => ModeOf(w) = "blocking"
    /\ (Alive /\ \E w \in WorkerIds : ~Ended(w)) =>
           \E w \in WorkerIds : Running(w) \/ (~Ended(w) /\ ENABLED WorkerStep(w))

\* A worker waits for the per-task mutex that a worker running the job holds
\* together with the shared gate.
C26_Witness ==
    \E v \in WorkerIds, w \in WorkerIds :
        /\ Running(v) /\ v \in rwReaders /\ muHolder[workers[v].task] = v
        /\ workers[w].pc = "mulock" /\ workers[w].task = workers[v].task

\* A step writes the task table, the mutex table, the timer handle of a task
\* (task.timer = time.AfterFunc(...)) or the counter of a task that has its id.
OwnedStateWritten ==
    \/ tasks' # tasks
    \/ taskMus' # taskMus
    \/ \E i \in 1..nextID : times'[i] # times[i]
    \/ \E i \in Ids : (armed'[i] /\ ~armed[i]) \/ stray'[i] > stray[i]

\* C27: only steps of the dispatch loop change the task table, the per-task
\* mutex table, a task's pending timer handle or its remaining-runs counter.
C27_OnlyLoopMutates == [][OwnedStateWritten => loop' # loop]_vars

\* The dispatch loop calls task.next(), in the fire branch or in addTask.
NextCalled == loop.pc \in {"fire_next", "add_next"} /\ loop'.pc # loop.pc

\* C28: a call of next at times = 0 reports keep = false and leaves times at 0;
\* at positive times it decrements times by exactly 1; at -1 it leaves -1.
\* Over all admissions and fires the counter of a task never increases and is
\* never below 0 unless it is -1.
C28_TimesCountdown ==
    [][/\ NextCalled =>
              LET t == times[loop.id]
              IN  /\ t = 0 => (times'[loop.id] = 0 /\ loop'.pc = "del_tasks")
                  /\ t > 0 => times'[loop.id] = t - 1
                  /\ t = Forever => times'[loop.id] = Forever
       /\ \A i \in 1..nextID :
              /\ times'[i] <= times[i]
              /\ times'[i] >= 0 \/ times'[i] = Forever
      ]_vars

\* A task built with Times(2) has gone 2, 1, 0 and next has just reported
\* keep = false at 0; a task that runs for ever has been through next as well.
C28_Witness ==
    /\ loop.pc = "del_tasks"
    /\ hist.n0[loop.id] = 2 /\ times[loop.id] = 0
    /\ \E i \in tasks : times[i] = Forever /\ armed[i]

\* C29: whenever the dispatch loop is between two events, and no Stop is in the
\* middle of its work, the task table and the per-task mutex table hold the
\* same ids.
C29_TablesAgree ==
    (AtSelect /\ ext.pc # "stop") => tasks = taskMus

\* C30: Stop can be performed more than once (called directly and by Run on
\* cancellation) without an abnormal termination: no Stop ends in the panic of
\* closing a channel that is closed already.
C30_StopTwice == crashed # "close of closed channel"

\* A call of Stop has returned: the direct one, or the one Run made before it
\* returned.
StopHasReturned ==
    \/ ext.pc = "done"
    \/ loop.pc = "returned" /\ ext.pc = "idle" /\ closed = {"run", "add", "del"}

\* A step inserts a task into the task table, arms a timer or spawns a worker.
SchedulesSomething ==
    \/ ~(tasks' \subseteq tasks)
    \/ \E i \in Ids : (armed'[i] /\ ~armed[i]) \/ stray'[i] > stray[i]
    \/ Len(workers') > Len(workers)

\* C31: after Stop has returned no task is inserted into the task table, no
\* timer is armed and no worker is spawned.
C31_NothingScheduledAfterStop == [][StopHasReturned => ~SchedulesSomething]_vars

====
